---- MODULE Spec2Model ----
(***************************************************************************)
(* Model of the chapter detection of AudiobookConstructor:                 *)
(*   find_sections / split_chapters / load_chapter_titles of               *)
(*   src/pages/chapter_splitter.py and src/AudiobookConstructor.py, and    *)
(*   the call of split_chapters in AudiobookConstructor.main.              *)
(*                                                                         *)
(* Text is modelled at word granularity.  A word is a record               *)
(*   [stem, shape, num]: the letters ignoring case, the case pattern       *)
(*   ("lower", "Cap", "UPPER") and, for "chapter <digits>", the digit      *)
(*   characters that follow.  str.lower() and str.capitalize() change the  *)
(*   shape; int() and the f-string "{chapter_num}" convert between digit   *)
(*   characters and numbers.  Times are seconds, as naturals.              *)
(***************************************************************************)
EXTENDS Integers, Sequences, FiniteSets, TLC

VARIABLES
    copy,                  \* which file's split_chapters runs: "pages" | "main" | "none"
    use_titles,            \* split_chapters(use_titles=...) (pages copy only)
    title_file,            \* chapter_titles.txt: [exists, lines]
    original_files,        \* generate_lists(audio_dir, original_files)
    lists,                 \* what generate_lists wrote and returned
    pattern,               \* structural alternatives of the regex given to find_sections
    result,                \* result["segments"] of model.transcribe
    matches,               \* find_sections: matches
    first_chapter_start,   \* <<>> is None, <<t>> is t
    last_chapter_start,    \* <<>> is None, <<t>> is t
    non_chapters,          \* dict: capitalised keyword -> list of starts
    titles,                \* split_chapters: titles
    chapters,              \* split_chapters: chapters
    exported,              \* ffmpeg runs of the export loop: [chapter, ok]
    ret,                   \* value returned by the entry function
    pc                     \* position in the program

vars == << copy, use_titles, title_file, original_files, lists, pattern,
           result, matches, first_chapter_start, last_chapter_start,
           non_chapters, titles, chapters, exported, ret, pc >>

-----------------------------------------------------------------------------
(* Bounds of the model *)

MaxSegs == 3
MaxTime == 2
MaxChapter == 2
MaxTitles == 1
MaxLines == 3
MaxFiles == 3
MaxProbe == 4

-----------------------------------------------------------------------------
(* Words, case and numbers *)

Word(stem, shape) == [stem |-> stem, shape |-> shape, num |-> <<>>]

ChapterWord(shape, digits) == [stem |-> "chapter", shape |-> shape, num |-> digits]

\* str.lower()
Lower(w) == [w EXCEPT !.shape = "lower"]

\* Capitalize that leaves the word as it was spoken
Capitalize_asSpoken(w) == w

\* str.capitalize(): first letter upper case, the rest lower case
Capitalize(w) == [w EXCEPT !.shape = "Cap"]

DigitChars == <<"0", "1", "2", "3", "4", "5", "6", "7", "8", "9">>

DigitVal(c) == (CHOOSE i \in 1..Len(DigitChars) : DigitChars[i] = c) - 1

IsDigit(c) == \E i \in 1..Len(DigitChars) : DigitChars[i] = c

\* int("<digits>")
RECURSIVE IntOf(_)
IntOf(ds) ==
    IF ds = <<>> THEN 0
    ELSE IntOf(SubSeq(ds, 1, Len(ds) - 1)) * Len(DigitChars) + DigitVal(ds[Len(ds)])

\* f"{n}" for n >= 0
RECURSIVE StrOf(_)
StrOf(n) ==
    IF n < Len(DigitChars) THEN << DigitChars[n + 1] >>
    ELSE StrOf(n \div Len(DigitChars)) \o << DigitChars[(n % Len(DigitChars)) + 1] >>

-----------------------------------------------------------------------------
(* The regular expressions *)

\* default pattern of find_sections: the alternatives other than chapter (\d+)
DefaultPattern ==
    { "introduction", "conclusion", "prologue", "epilogue", "foreword",
      "afterword", "dedication", "acknowledgement", "appendix", "addendum",
      "glossary", "bibliography", "index", "preface" }

\* pattern that split_chapters passes to find_sections
SplitPattern == { "introduction", "prologue", "epilogue", "preface", "conclusion" }

\* one word matches r"(chapter (\d+)|kw1|kw2|...)" with re.IGNORECASE
RegexMatches(pat, w) ==
    \/ w.stem = "chapter" /\ w.num # <<>>
    \/ w.stem \in pat /\ w.num = <<>>

\* match.group(1): the matched text;  match.group(2): the digits or None (<<>>)
Group1(w) == w

Group2(w) == w.num

-----------------------------------------------------------------------------
(* find_sections *)

\* ScanText that stops at the first match of a text (regex.search)
RECURSIVE ScanText_first(_, _, _)
ScanText_first(pat, seg, i) ==
    IF i > Len(seg.text) THEN <<>>
    ELSE IF RegexMatches(pat, seg.text[i])
         THEN << [start |-> seg.start, end |-> seg.end,
                  text |-> seg.text, match |-> seg.text[i]] >>
         ELSE ScanText_first(pat, seg, i + 1)

\* for match in regex.finditer(text): matches.append({...})
RECURSIVE ScanText(_, _, _)
ScanText(pat, seg, i) ==
    IF i > Len(seg.text) THEN <<>>
    ELSE (IF RegexMatches(pat, seg.text[i])
          THEN << [start |-> seg.start, end |-> seg.end,
                   text |-> seg.text, match |-> seg.text[i]] >>
          ELSE <<>>)
         \o ScanText(pat, seg, i + 1)

\* for seg in result["segments"]: ...
RECURSIVE ScanSegments(_, _, _)
ScanSegments(pat, segs, i) ==
    IF i > Len(segs) THEN <<>>
    ELSE ScanText(pat, segs[i], 1) \o ScanSegments(pat, segs, i + 1)

\* InsertByStart that puts x in front of the elements with an equal start
RECURSIVE InsertByStart_beforeEqual(_, _)
InsertByStart_beforeEqual(sorted, x) ==
    IF sorted = <<>> THEN << x >>
    ELSE IF sorted[Len(sorted)].start < x.start THEN Append(sorted, x)
    ELSE Append(InsertByStart_beforeEqual(SubSeq(sorted, 1, Len(sorted) - 1), x),
                sorted[Len(sorted)])

\* insertion of x behind every element whose start is <= x.start
RECURSIVE InsertByStart(_, _)
InsertByStart(sorted, x) ==
    IF sorted = <<>> THEN << x >>
    ELSE IF sorted[Len(sorted)].start <= x.start THEN Append(sorted, x)
    ELSE Append(InsertByStart(SubSeq(sorted, 1, Len(sorted) - 1), x),
                sorted[Len(sorted)])

\* insertion of x behind every element whose start is >= x.start
RECURSIVE InsertByStartDescending(_, _)
InsertByStartDescending(sorted, x) ==
    IF sorted = <<>> THEN << x >>
    ELSE IF sorted[Len(sorted)].start >= x.start THEN Append(sorted, x)
    ELSE Append(InsertByStartDescending(SubSeq(sorted, 1, Len(sorted) - 1), x),
                sorted[Len(sorted)])

\* SortByStart with the latest marker first (reverse=True)
RECURSIVE SortByStart_descending(_)
SortByStart_descending(ms) ==
    IF ms = <<>> THEN <<>>
    ELSE InsertByStartDescending(
             SortByStart_descending(SubSeq(ms, 1, Len(ms) - 1)), ms[Len(ms)])

\* matches.sort(key=lambda m: m["start"]): list.sort is stable
RECURSIVE SortByStart(_)
SortByStart(ms) ==
    IF ms = <<>> THEN <<>>
    ELSE InsertByStart(SortByStart(SubSeq(ms, 1, Len(ms) - 1)), ms[Len(ms)])

\* FirstChapterStart with first_chapter_start initialised to 0 instead of None
FirstChapterStart_zero(ms) ==
    LET numbered == { i \in 1..Len(ms) : ms[i].match.num # <<>> }
    IN  IF numbered = {} THEN << 0 >>
        ELSE << ms[CHOOSE i \in numbered : \A j \in numbered : i <= j].start >>

\* FirstChapterStart overwritten at every numbered marker, as last_chapter_start is
FirstChapterStart_overwritten(ms) ==
    LET numbered == { i \in 1..Len(ms) : Group2(ms[i].match) # <<>> }
    IN  IF numbered = {} THEN <<>>
        ELSE << ms[CHOOSE i \in numbered : \A j \in numbered : i >= j].start >>

\* first_chapter_start after the loop over the sorted matches
FirstChapterStart(ms) ==
    LET numbered == { i \in 1..Len(ms) : Group2(ms[i].match) # <<>> }
    IN  IF numbered = {} THEN <<>>
        ELSE << ms[CHOOSE i \in numbered : \A j \in numbered : i <= j].start >>

\* LastChapterStart assigned only while it is None, as first_chapter_start is
LastChapterStart_onlyOnce(ms) ==
    LET numbered == { i \in 1..Len(ms) : Group2(ms[i].match) # <<>> }
    IN  IF numbered = {} THEN <<>>
        ELSE << ms[CHOOSE i \in numbered : \A j \in numbered : i <= j].start >>

\* last_chapter_start after the loop over the sorted matches
LastChapterStart(ms) ==
    LET numbered == { i \in 1..Len(ms) : Group2(ms[i].match) # <<>> }
    IN  IF numbered = {} THEN <<>>
        ELSE << ms[CHOOSE i \in numbered : \A j \in numbered : i >= j].start >>

non_chapter_keywords ==
    { "introduction", "conclusion", "prologue", "epilogue", "foreword",
      "afterword", "preface", "appendix", "addendum", "glossary",
      "bibliography", "index", "dedication", "acknowledgement" }

FrontKeywords == { "introduction", "prologue", "foreword", "preface" }

BackKeywords ==
    { "conclusion", "epilogue", "afterword", "appendix", "addendum",
      "glossary", "bibliography", "index" }

EitherKeywords == { "dedication", "acknowledgement" }

\* kw_lower in [...]: comparison of the lower-cased matched text with a literal
InList(kw_lower, list) ==
    /\ kw_lower.shape = "lower"
    /\ kw_lower.num = <<>>
    /\ kw_lower.stem \in list

\* SkipFront with ">" in place of ">="
SkipFront_strict(kw_lower, start, first) ==
    /\ kw_lower.shape = "lower" /\ kw_lower.num = <<>>
    /\ kw_lower.stem \in { "introduction", "prologue", "foreword", "preface" }
    /\ first # <<>>
    /\ start > first[1]

\* SkipBack with "<" in place of "<="
SkipBack_strict(kw_lower, start, last) ==
    /\ kw_lower.shape = "lower" /\ kw_lower.num = <<>>
    /\ kw_lower.stem \in { "conclusion", "epilogue", "afterword", "appendix",
                            "addendum", "glossary", "bibliography", "index" }
    /\ last # <<>>
    /\ start < last[1]

\* SkipEither with "or" in place of the middle "and"
SkipEither_or(kw_lower, start, first, last) ==
    /\ kw_lower.shape = "lower" /\ kw_lower.num = <<>>
    /\ kw_lower.stem \in { "dedication", "acknowledgement" }
    /\ \/ (first # <<>> /\ start >= first[1])
       \/ (last # <<>> /\ start <= last[1])

\* the three "continue" tests of the classification loop
SkipFront(kw_lower, start, first) ==
    /\ InList(kw_lower, FrontKeywords)
    /\ first # <<>>
    /\ start >= first[1]

SkipBack(kw_lower, start, last) ==
    /\ InList(kw_lower, BackKeywords)
    /\ last # <<>>
    /\ start <= last[1]

SkipEither(kw_lower, start, first, last) ==
    /\ InList(kw_lower, EitherKeywords)
    /\ (first # <<>> /\ start >= first[1])
    /\ (last # <<>> /\ start <= last[1])

\* one marker is appended to non_chapters[key]
Reported(m, first, last) ==
    LET kw_lower == Lower(Group1(m.match))
    IN  /\ InList(kw_lower, non_chapter_keywords)
        /\ ~ SkipFront(kw_lower, m.start, first)
        /\ ~ SkipBack(kw_lower, m.start, last)
        /\ ~ SkipEither(kw_lower, m.start, first, last)

\* non_chapters[key].append(m["start"]), creating the list when key is new
DictAppend(d, key, v) ==
    IF key \in DOMAIN d THEN [d EXCEPT ![key] = Append(@, v)]
    ELSE d @@ (key :> << v >>)

EmptyDict == [k \in {} |-> <<>>]

\* the loop "for m in matches" that fills non_chapters
RECURSIVE Classify(_, _, _, _, _)
Classify(ms, i, first, last, d) ==
    IF i > Len(ms) THEN d
    ELSE Classify(ms, i + 1, first, last,
                  IF Reported(ms[i], first, last)
                  THEN DictAppend(d, Capitalize(Group1(ms[i].match)), ms[i].start)
                  ELSE d)

-----------------------------------------------------------------------------
(* generate_lists *)

\* A file of audio_dir is [name, micros]: its name as a sequence of pieces and
\* the duration that ffprobe prints for it, in microseconds.

\* int(float(result.stdout.strip()) * 1000): milliseconds, the rest cut off
get_duration(file) == file.micros \div 1000

\* sum(get_duration(...) for fn in original_files)
RECURSIVE TotalDuration(_)
TotalDuration(files) ==
    IF files = <<>> THEN 0
    ELSE get_duration(Head(files)) + TotalDuration(Tail(files))

\* fn.replace(' - ', ': ')
RECURSIVE ReplaceDash(_)
ReplaceDash(fn) ==
    IF fn = <<>> THEN <<>>
    ELSE << IF Head(fn) = " - " THEN ": " ELSE Head(fn) >> \o ReplaceDash(Tail(fn))

\* os.path.join(audio_dir, fn)
PathJoin(dir, fn) == dir \o << "/" >> \o fn

\* os.path.basename(audio_dir)
Basename(dir) == << dir[Len(dir)] >>

\* one [CHAPTER] block of chapters.txt
ChapterEntry(start, end, title) == [START |-> start, END |-> end, title |-> title]

\* ChapterEntries in which start is not advanced (start = end left out)
RECURSIVE ChapterEntries_noAdvance(_, _, _)
ChapterEntries_noAdvance(files, i, start) ==
    IF i > Len(files) THEN <<>>
    ELSE << ChapterEntry(start, start + get_duration(files[i]),
                         ReplaceDash(files[i].name)) >>
         \o ChapterEntries_noAdvance(files, i + 1, start)

\* for _, fn in enumerate(original_files, 1): end = start + get_duration(...);
\* write the block; start = end
RECURSIVE ChapterEntries(_, _, _)
ChapterEntries(files, i, start) ==
    IF i > Len(files) THEN <<>>
    ELSE << ChapterEntry(start, start + get_duration(files[i]),
                         ReplaceDash(files[i].name)) >>
         \o ChapterEntries(files, i + 1, start + get_duration(files[i]))

\* generate_lists of copy c: the lines of filelist.txt, the blocks of
\* chapters.txt and total_duration; pages/audio_processor.py writes one block
\* titled as the book when there is one file
generate_lists(c, audio_dir, files) ==
    [filelist       |-> [i \in 1..Len(files) |-> PathJoin(audio_dir, files[i].name)],
     total_duration |-> TotalDuration(files),
     chapters       |-> IF c = "pages" /\ Len(files) = 1
                        THEN << ChapterEntry(0, TotalDuration(files),
                                             Basename(audio_dir)) >>
                        ELSE ChapterEntries(files, 1, 0)]

\* generate_lists has not run
NoLists == [filelist |-> <<>>, total_duration |-> 0, chapters |-> <<>>]

-----------------------------------------------------------------------------
(* load_chapter_titles *)

\* A line of chapter_titles.txt is a sequence of pieces: " " and "\n" are
\* white space, "#" the comment sign, anything else a piece of title text.
IsSpace(c) == c \in {" ", "\n"}

\* str.strip(): leading and trailing white space removed
RECURSIVE LStrip(_)
LStrip(line) ==
    IF line # <<>> /\ IsSpace(Head(line)) THEN LStrip(Tail(line)) ELSE line

RECURSIVE RStrip(_)
RStrip(line) ==
    IF line # <<>> /\ IsSpace(line[Len(line)])
    THEN RStrip(SubSeq(line, 1, Len(line) - 1))
    ELSE line

\* Strip that removes leading white space only (str.lstrip)
Strip_left(line) == LStrip(line)

Strip(line) == RStrip(LStrip(line))

\* line.startswith("#")
StartsWithHash(line) == line # <<>> /\ Head(line) = "#"

\* for line in f: line = line.strip(); if line and not line.startswith("#"): ...
RECURSIVE TitlesOfLines(_)
TitlesOfLines(lines) ==
    IF lines = <<>> THEN <<>>
    ELSE (IF Strip(Head(lines)) # <<>> /\ ~ StartsWithHash(Strip(Head(lines)))
          THEN << Strip(Head(lines)) >>
          ELSE <<>>)
         \o TitlesOfLines(Tail(lines))

\* file: [exists |-> os.path.exists(filename), lines |-> its lines]
load_chapter_titles(file) ==
    IF file.exists THEN TitlesOfLines(file.lines) ELSE <<>>

-----------------------------------------------------------------------------
(* split_chapters *)

\* ChapterLabel with the title list indexed from chapter 0
ChapterLabel_zeroBased(chapter_num, tl, ut) ==
    IF ut /\ 0 <= chapter_num /\ chapter_num < Len(tl)
    THEN << "Chapter " >> \o StrOf(chapter_num) \o << " - " >> \o tl[chapter_num + 1]
    ELSE << "Chapter " >> \o StrOf(chapter_num)

\* ChapterLabel with chapter 0 renumbered to chapter 1
ChapterLabel_atLeastOne(chapter_num, tl, ut) ==
    IF chapter_num = 0 THEN << "Chapter " >> \o StrOf(1)
    ELSE IF ut /\ 1 <= chapter_num /\ chapter_num <= Len(tl)
    THEN << "Chapter " >> \o StrOf(chapter_num) \o << " - " >> \o tl[chapter_num]
    ELSE << "Chapter " >> \o StrOf(chapter_num)

\* f"Chapter {chapter_num} - {titles[chapter_num - 1]}" or f"Chapter {chapter_num}"
ChapterLabel(chapter_num, tl, ut) ==
    IF ut /\ 1 <= chapter_num /\ chapter_num <= Len(tl)
    THEN << "Chapter " >> \o StrOf(chapter_num) \o << " - " >> \o tl[chapter_num]
    ELSE << "Chapter " >> \o StrOf(chapter_num)

\* EndTime read from the marker's own segment (end = m["end"])
EndTime_ownSegment(ms, idx, segs) == << ms[idx].end >>

\* EndTime that leaves the end of the last marker unset (end = None)
EndTime_unsetLast(ms, idx, segs) ==
    IF idx + 1 <= Len(ms) THEN << ms[idx + 1].start >> ELSE <<>>

\* EndTime with the end of the last matched segment as the end of the audio
EndTime_lastMatch(ms, idx, segs) ==
    IF idx + 1 <= Len(ms) THEN << ms[idx + 1].start >>
    ELSE IF segs # <<>> THEN << ms[Len(ms)].end >>
    ELSE <<>>

\* the next numbered marker, if any
NextNumbered(ms, idx) ==
    { j \in (idx + 1)..Len(ms) :
        /\ ms[j].match.num # <<>>
        /\ \A k \in (idx + 1)..(j - 1) : ms[k].match.num = <<>> }

\* EndTime with the next numbered marker as the boundary
EndTime_nextChapter(ms, idx, segs) ==
    IF NextNumbered(ms, idx) # {}
    THEN << ms[CHOOSE j \in NextNumbered(ms, idx) : TRUE].start >>
    ELSE IF segs # <<>> THEN << segs[Len(segs)].end >>
    ELSE <<>>

\* end: start of the next match in the sorted list, else the end of the last
\* segment, else None
EndTime(ms, idx, segs) ==
    IF idx + 1 <= Len(ms) THEN << ms[idx + 1].start >>
    ELSE IF segs # <<>> THEN << segs[Len(segs)].end >>
    ELSE <<>>

\* os.path.join(output_dir, f"{chapter_label}{input_ext}")
OutputFile(label) == << "output_dir/" >> \o label \o << "input_ext" >>

\* AlreadySeen with nothing ever recorded as seen
AlreadySeen_never(chapter_num, seen) == FALSE

\* if chapter_num in seen_chapters: continue
AlreadySeen(chapter_num, seen) == chapter_num \in seen

\* the loop "for idx, m in enumerate(matches)" that builds chapters
RECURSIVE BuildChapters(_, _, _, _, _, _, _)
BuildChapters(ms, idx, segs, tl, ut, seen, chs) ==
    IF idx > Len(ms) THEN chs
    ELSE IF Group2(ms[idx].match) = <<>>
         THEN BuildChapters(ms, idx + 1, segs, tl, ut, seen, chs)
    ELSE LET chapter_num == IntOf(Group2(ms[idx].match))
         IN  IF AlreadySeen(chapter_num, seen)
             THEN BuildChapters(ms, idx + 1, segs, tl, ut, seen, chs)
             ELSE BuildChapters(ms, idx + 1, segs, tl, ut,
                      seen \cup { chapter_num },
                      Append(chs,
                          [chapter |-> ChapterLabel(chapter_num, tl, ut),
                           start   |-> ms[idx].start,
                           end     |-> EndTime(ms, idx, segs),
                           file    |-> OutputFile(ChapterLabel(chapter_num, tl, ut))]))

\* digits matched by r"Chapter (\d+)" from position i of the label
RECURSIVE DigitRun(_, _)
DigitRun(label, i) ==
    IF i <= Len(label) /\ IsDigit(label[i])
    THEN << label[i] >> \o DigitRun(label, i + 1)
    ELSE <<>>

NoMatchKey == 9999

\* chapter_sort_key(ch)
chapter_sort_key(ch) ==
    IF /\ Len(ch.chapter) >= 2
       /\ ch.chapter[1] = "Chapter "
       /\ DigitRun(ch.chapter, 2) # <<>>
    THEN IntOf(DigitRun(ch.chapter, 2))
    ELSE NoMatchKey

RECURSIVE InsertByKey(_, _)
InsertByKey(sorted, x) ==
    IF sorted = <<>> THEN << x >>
    ELSE IF chapter_sort_key(sorted[Len(sorted)]) <= chapter_sort_key(x)
         THEN Append(sorted, x)
    ELSE Append(InsertByKey(SubSeq(sorted, 1, Len(sorted) - 1), x),
                sorted[Len(sorted)])

\* SortChapters with the sort left out
SortChapters_none(chs) == chs

\* chapters.sort(key=chapter_sort_key): list.sort is stable
RECURSIVE SortChapters(_)
SortChapters(chs) ==
    IF chs = <<>> THEN <<>>
    ELSE InsertByKey(SortChapters(SubSeq(chs, 1, Len(chs) - 1)), chs[Len(chs)])

-----------------------------------------------------------------------------
(* Inputs *)

Times == 0..MaxTime

\* the texts of at most one word
TextsOver(words) == {<<>>} \cup { << w >> : w \in words }

\* a segment lasts one second
Segment(s, t) == [start |-> s, end |-> s + 1, text |-> t]

\* transcripts whose segments come in any order of time
TranscriptsOver(words) ==
    UNION { [1..n -> { Segment(s, t) : s \in Times, t \in TextsOver(words) }] :
              n \in 0..MaxSegs }

\* transcripts as the transcription emits them: in chronological order, every
\* segment ending before the next one starts
ChronologicalOver(words) ==
    UNION { { [i \in 1..n |-> Segment(st[i], tx[i])] :
                st \in { f \in [1..n -> Times] :
                           \A i \in 1..(n - 1) : f[i] < f[i + 1] },
                tx \in [1..n -> TextsOver(words)] } :
              n \in 0..MaxSegs }

\* a segment as the transcription delivers it, its end read as it stands
SegmentTo(s, e, t) == [start |-> s, end |-> e, text |-> t]

\* transcripts in chronological order of start whose segment ends are any times,
\* before their start included
CorruptOver(words) ==
    UNION { { [i \in 1..n |-> SegmentTo(st[i], en[i], tx[i])] :
                st \in { f \in [1..n -> Times] :
                           \A i \in 1..(n - 1) : f[i] < f[i + 1] },
                en \in [1..n -> Times],
                tx \in [1..n -> TextsOver(words)] } :
              n \in 0..MaxSegs }

\* the texts of at most two words
PhrasesOver(words) ==
    TextsOver(words) \cup { << v, w >> : v \in words, w \in words }

\* chronological transcripts whose segments hold up to two words
SpokenOver(words) ==
    UNION { { [i \in 1..n |-> Segment(st[i], tx[i])] :
                st \in { f \in [1..n -> Times] :
                           \A i \in 1..(n - 1) : f[i] < f[i + 1] },
                tx \in [1..n -> PhrasesOver(words)] } :
              n \in 0..MaxSegs }

\* words given to the marker scan: a numbered chapter, a keyword, and the word
\* "chapter" with no number behind it
ScanWords ==
    { ChapterWord("Cap", StrOf(1)), Word("prologue", "UPPER"),
      Word("chapter", "lower") }

\* words given to the sort: one chapter number written in two ways, and a
\* keyword
SortWords ==
    { ChapterWord("Cap", StrOf(1)), ChapterWord("Cap", << "0", "1" >>),
      Word("prologue", "Cap") }

\* transcripts of one word per segment whose starts are non-decreasing and
\* whose segments all last one second, or all last two: segments share starts
\* and, lasting two seconds, overlap
OverlappingOver(words) ==
    UNION { { [i \in 1..n |-> SegmentTo(st[i], st[i] + du, << tx[i] >>)] :
                st \in { f \in [1..n -> Times] :
                           \A i \in 1..(n - 1) : f[i] <= f[i + 1] },
                du \in {1, 2},
                tx \in [1..n -> words] } :
              n \in 0..MaxSegs }

\* the structural keywords as they are spoken, in assorted case
SpokenKeywords ==
    { Word("introduction", "Cap"), Word("prologue", "lower"),
      Word("foreword", "UPPER"), Word("preface", "Cap"),
      Word("conclusion", "lower"), Word("epilogue", "UPPER"),
      Word("afterword", "Cap"), Word("appendix", "lower"),
      Word("addendum", "UPPER"), Word("glossary", "Cap"),
      Word("bibliography", "lower"), Word("index", "UPPER"),
      Word("dedication", "Cap"), Word("acknowledgement", "UPPER") }

\* words of the transcripts given to find_sections: "Chapter 1" and one keyword
FindWords(w) == { ChapterWord("Cap", StrOf(1)), w }

\* the spoken chapter numbers: 0..MaxChapter, and "01"
Numerals == { StrOf(n) : n \in 0..MaxChapter } \cup { << "0", "1" >> }

\* words of the transcripts given to split_chapters
SplitWords ==
    { ChapterWord("Cap", ds) : ds \in Numerals } \cup { Word("prologue", "Cap") }

TitleNames == << "Alpha", "Beta", "Gamma", "Delta", "Epsilon" >>

\* line i of chapter_titles.txt: title i, plain, indented or followed by " #",
\* a comment, an indented comment or a blank line
LinesAt(i) ==
    { << TitleNames[i], "\n" >>, << " ", TitleNames[i], " ", "\n" >>,
      << TitleNames[i], " ", "#", "\n" >>,
      << "#", TitleNames[i], "\n" >>, << " ", "#", TitleNames[i], "\n" >>,
      << "\n" >> }

MissingFile == [exists |-> FALSE, lines |-> <<>>]

\* chapter_titles.txt: missing, or of up to MaxLines lines
TitleFiles ==
    { MissingFile }
    \cup { [exists |-> TRUE, lines |-> ls] :
             ls \in UNION { { f \in [1..n -> UNION { LinesAt(i) : i \in 1..n }] :
                                \A i \in 1..n : f[i] \in LinesAt(i) } :
                            n \in 0..MaxLines } }

\* chapter_titles.txt as split_chapters finds it: missing, or one plain title
\* per line
PlainTitleFiles ==
    { MissingFile }
    \cup { [exists |-> TRUE, lines |-> [i \in 1..n |-> << TitleNames[i], "\n" >>]] :
             n \in 1..MaxTitles }

-----
(* find_sections as steps *)

FS_Scan ==
    /\ pc = "fs_scan"
    /\ matches' = ScanSegments(pattern, result, 1)
    /\ pc' = "fs_sort"
    /\ UNCHANGED << copy, use_titles, title_file, original_files, lists, pattern, result, first_chapter_start,
                    last_chapter_start, non_chapters, titles, chapters,
                    exported, ret >>

FS_Sort ==
    /\ pc = "fs_sort"
    /\ matches' = SortByStart(matches)
    /\ pc' = "fs_anchors"
    /\ UNCHANGED << copy, use_titles, title_file, original_files, lists, pattern, result, first_chapter_start,
                    last_chapter_start, non_chapters, titles, chapters,
                    exported, ret >>

FS_Anchors ==
    /\ pc = "fs_anchors"
    /\ first_chapter_start' = FirstChapterStart(matches)
    /\ last_chapter_start' = LastChapterStart(matches)
    /\ pc' = "fs_classify"
    /\ UNCHANGED << copy, use_titles, title_file, original_files, lists, pattern, result, matches, non_chapters,
                    titles, chapters, exported, ret >>

FS_Classify ==
    /\ pc = "fs_classify"
    /\ non_chapters' =
           Classify(matches, 1, first_chapter_start, last_chapter_start, EmptyDict)
    /\ pc' = "fs_return"
    /\ UNCHANGED << copy, use_titles, title_file, original_files, lists, pattern, result, matches,
                    first_chapter_start, last_chapter_start, titles, chapters,
                    exported, ret >>

\* return matches, result, non_chapters: to the caller of find_sections
FS_Return ==
    /\ pc = "fs_return"
    /\ ret' = IF copy = "none"
              THEN [kind |-> "find_sections", matches |-> matches,
                    non_chapters |-> non_chapters]
              ELSE ret
    /\ pc' = IF copy = "none" THEN "done" ELSE "sc_check"
    /\ UNCHANGED << copy, use_titles, title_file, original_files, lists, pattern, result, matches,
                    first_chapter_start, last_chapter_start, non_chapters,
                    titles, chapters, exported >>

NoReturn == [kind |-> "none"]

\* find_sections(audio_file) with the default pattern on any transcript
InitFind ==
    /\ copy = "none"
    /\ use_titles = TRUE
    /\ title_file = MissingFile
    /\ original_files = <<>>
    /\ lists = NoLists
    /\ pattern = DefaultPattern
    /\ \E w \in SpokenKeywords : result \in TranscriptsOver(FindWords(w))
    /\ matches = <<>>
    /\ first_chapter_start = <<>>
    /\ last_chapter_start = <<>>
    /\ non_chapters = EmptyDict
    /\ titles = <<>>
    /\ chapters = <<>>
    /\ exported = <<>>
    /\ ret = NoReturn
    /\ pc = "fs_scan"

NextFind == FS_Scan \/ FS_Sort \/ FS_Anchors \/ FS_Classify \/ FS_Return

SpecFind == InitFind /\ [][NextFind]_vars

\* find_sections(audio_file) with the default pattern on a transcript whose
\* segments hold several words
InitScan ==
    /\ copy = "none"
    /\ use_titles = TRUE
    /\ title_file = MissingFile
    /\ original_files = <<>>
    /\ lists = NoLists
    /\ pattern = DefaultPattern
    /\ result \in SpokenOver(ScanWords)
    /\ matches = <<>>
    /\ first_chapter_start = <<>>
    /\ last_chapter_start = <<>>
    /\ non_chapters = EmptyDict
    /\ titles = <<>>
    /\ chapters = <<>>
    /\ exported = <<>>
    /\ ret = NoReturn
    /\ pc = "fs_scan"

SpecScan == InitScan /\ [][NextFind]_vars

\* find_sections(audio_file) on a transcript whose segments come in any order
\* of time and may share a start
InitSort ==
    /\ copy = "none"
    /\ use_titles = TRUE
    /\ title_file = MissingFile
    /\ original_files = <<>>
    /\ lists = NoLists
    /\ pattern = DefaultPattern
    /\ result \in TranscriptsOver(SortWords)
    /\ matches = <<>>
    /\ first_chapter_start = <<>>
    /\ last_chapter_start = <<>>
    /\ non_chapters = EmptyDict
    /\ titles = <<>>
    /\ chapters = <<>>
    /\ exported = <<>>
    /\ ret = NoReturn
    /\ pc = "fs_scan"

SpecSort == InitSort /\ [][NextFind]_vars

-----------------------------------------------------------------------------
(* split_chapters as steps *)

\* pattern = r"(chapter (\d+)|introduction|prologue|epilogue|preface|conclusion)"
\* matches, result, non_chapters = find_sections(audio_file, pattern=pattern, ...)
SC_Call ==
    /\ pc = "sc_call"
    /\ pattern' = SplitPattern
    /\ pc' = "fs_scan"
    /\ UNCHANGED << copy, use_titles, title_file, original_files, lists, result, matches, first_chapter_start,
                    last_chapter_start, non_chapters, titles, chapters,
                    exported, ret >>

\* what "if not matches:" returns: [], non_chapters in pages/chapter_splitter.py,
\* the bare [] in AudiobookConstructor.py
NoMatchesReturn(c, d) ==
    IF c = "pages"
    THEN [kind |-> "tuple", chapters |-> <<>>, non_chapters |-> d]
    ELSE [kind |-> "list", chapters |-> <<>>, non_chapters |-> EmptyDict]

SC_NoMatches ==
    /\ pc = "sc_check"
    /\ matches = <<>>
    /\ ret' = NoMatchesReturn(copy, non_chapters)
    /\ pc' = "sc_returned"
    /\ UNCHANGED << copy, use_titles, title_file, original_files, lists, pattern, result, matches,
                    first_chapter_start, last_chapter_start, non_chapters,
                    titles, chapters, exported >>

\* titles = load_chapter_titles() if use_titles else []
SC_LoadTitles ==
    /\ pc = "sc_check"
    /\ matches # <<>>
    /\ titles' = IF use_titles THEN load_chapter_titles(title_file) ELSE <<>>
    /\ pc' = "sc_sort"
    /\ UNCHANGED << copy, use_titles, title_file, original_files, lists, pattern, result, matches,
                    first_chapter_start, last_chapter_start, non_chapters,
                    chapters, exported, ret >>

SC_Sort ==
    /\ pc = "sc_sort"
    /\ matches' = SortByStart(matches)
    /\ pc' = "sc_build"
    /\ UNCHANGED << copy, use_titles, title_file, original_files, lists, pattern, result, first_chapter_start,
                    last_chapter_start, non_chapters, titles, chapters,
                    exported, ret >>

SC_Build ==
    /\ pc = "sc_build"
    /\ chapters' = BuildChapters(matches, 1, result, titles, use_titles, {}, <<>>)
    /\ pc' = "sc_sort_chapters"
    /\ UNCHANGED << copy, use_titles, title_file, original_files, lists, pattern, result, matches,
                    first_chapter_start, last_chapter_start, non_chapters,
                    titles, exported, ret >>

SC_SortChapters ==
    /\ pc = "sc_sort_chapters"
    /\ chapters' = SortChapters(chapters)
    /\ pc' = "sc_export"
    /\ UNCHANGED << copy, use_titles, title_file, original_files, lists, pattern, result, matches,
                    first_chapter_start, last_chapter_start, non_chapters,
                    titles, exported, ret >>

\* "if not chapters: return [], non_chapters" exists in pages/chapter_splitter.py only
SC_NoChapters ==
    /\ pc = "sc_export"
    /\ copy = "pages"
    /\ chapters = <<>>
    /\ ret' = [kind |-> "tuple", chapters |-> <<>>, non_chapters |-> non_chapters]
    /\ pc' = "sc_returned"
    /\ UNCHANGED << copy, use_titles, title_file, original_files, lists, pattern, result, matches,
                    first_chapter_start, last_chapter_start, non_chapters,
                    titles, chapters, exported >>

\* the ffmpeg command of one chapter: -ss start, and -t duration when end is set
FfmpegRun(ch, ok) ==
    [file |-> ch.file,
     ss   |-> ch.start,
     t    |-> IF ch.end # <<>> THEN << ch.end[1] - ch.start >> ELSE <<>>,
     ok   |-> ok]

\* one round of "for ch in chapters": subprocess.run succeeds, or raises
\* CalledProcessError, which is caught and followed by "continue"
SC_Export ==
    /\ pc = "sc_export"
    /\ Len(exported) < Len(chapters)
    /\ \E ok \in BOOLEAN :
          exported' = Append(exported, FfmpegRun(chapters[Len(exported) + 1], ok))
    /\ UNCHANGED << copy, use_titles, title_file, original_files, lists, pattern, result, matches,
                    first_chapter_start, last_chapter_start, non_chapters,
                    titles, chapters, ret, pc >>

\* SC_Return taken also right after a failed export (return in the except
\* branch instead of continue)
SC_Return_onFailure ==
    /\ pc = "sc_export"
    /\ \/ Len(exported) = Len(chapters)
       \/ exported # <<>> /\ ~ exported[Len(exported)].ok
    /\ copy = "pages" => chapters # <<>>
    /\ ret' = [kind |-> "tuple", chapters |-> chapters, non_chapters |-> non_chapters]
    /\ pc' = "sc_returned"
    /\ UNCHANGED << copy, use_titles, title_file, original_files, lists, pattern, result, matches,
                    first_chapter_start, last_chapter_start, non_chapters,
                    titles, chapters, exported >>

\* return chapters, non_chapters
SC_Return ==
    /\ pc = "sc_export"
    /\ Len(exported) = Len(chapters)
    /\ copy = "pages" => chapters # <<>>
    /\ ret' = [kind |-> "tuple", chapters |-> chapters, non_chapters |-> non_chapters]
    /\ pc' = "sc_returned"
    /\ UNCHANGED << copy, use_titles, title_file, original_files, lists, pattern, result, matches,
                    first_chapter_start, last_chapter_start, non_chapters,
                    titles, chapters, exported >>

-----------------------------------------------------------------------------
(* AudiobookConstructor.main *)

\* chapters, non_chapters = split_chapters(audio_file, output_dir=audio_dir)
Main_Unpack ==
    /\ pc = "sc_returned"
    /\ copy = "main"
    /\ ret.kind = "tuple"
    /\ pc' = "main_report"
    /\ UNCHANGED << copy, use_titles, title_file, original_files, lists, pattern, result, matches,
                    first_chapter_start, last_chapter_start, non_chapters,
                    titles, chapters, exported, ret >>

\* unpacking the bare [] into two names raises ValueError
Main_UnpackError ==
    /\ pc = "sc_returned"
    /\ copy = "main"
    /\ ret.kind = "list"
    /\ pc' = "ValueError"
    /\ UNCHANGED << copy, use_titles, title_file, original_files, lists, pattern, result, matches,
                    first_chapter_start, last_chapter_start, non_chapters,
                    titles, chapters, exported, ret >>

\* original_files is empty (no chapter file was written): the argument
\* original_files[-1] of get_codec raises IndexError
Main_NoFiles ==
    /\ pc = "main_report"
    /\ \A i \in 1..Len(exported) : ~ exported[i].ok
    /\ pc' = "IndexError"
    /\ UNCHANGED << copy, use_titles, title_file, original_files, lists, pattern, result, matches,
                    first_chapter_start, last_chapter_start, non_chapters,
                    titles, chapters, exported, ret >>

\* original_files holds the chapter files: the conversion to m4b goes on
Main_Convert ==
    /\ pc = "main_report"
    /\ exported # <<>>
    /\ pc' = "main_convert"
    /\ UNCHANGED << copy, use_titles, title_file, original_files, lists, pattern, result, matches,
                    first_chapter_start, last_chapter_start, non_chapters,
                    titles, chapters, exported, ret >>

\* split_chapters of either file, on the transcript of any recording
Init ==
    /\ copy \in {"pages", "main"}
    /\ use_titles \in BOOLEAN
    /\ copy = "main" => use_titles
    /\ title_file \in PlainTitleFiles
    /\ ~ use_titles => title_file = MissingFile    \* the file is not opened
    /\ original_files = <<>>
    /\ lists = NoLists
    /\ pattern = {}
    /\ result \in ChronologicalOver(SplitWords)
    /\ matches = <<>>
    /\ first_chapter_start = <<>>
    /\ last_chapter_start = <<>>
    /\ non_chapters = EmptyDict
    /\ titles = <<>>
    /\ chapters = <<>>
    /\ exported = <<>>
    /\ ret = NoReturn
    /\ pc = "sc_call"

Next ==
    \/ SC_Call
    \/ FS_Scan
    \/ FS_Sort
    \/ FS_Anchors
    \/ FS_Classify
    \/ FS_Return
    \/ SC_NoMatches
    \/ SC_LoadTitles
    \/ SC_Sort
    \/ SC_Build
    \/ SC_SortChapters
    \/ SC_NoChapters
    \/ SC_Export
    \/ SC_Return
    \/ Main_Unpack
    \/ Main_UnpackError
    \/ Main_NoFiles
    \/ Main_Convert

Spec == Init /\ [][Next]_vars

\* split_chapters of either file on a transcript whose segment ends were
\* corrupted upstream
InitMalformed ==
    /\ copy \in {"pages", "main"}
    /\ use_titles = TRUE
    /\ title_file = MissingFile
    /\ original_files = <<>>
    /\ lists = NoLists
    /\ pattern = {}
    /\ result \in CorruptOver({ ChapterWord("Cap", StrOf(1)),
                                Word("prologue", "Cap") })
    /\ matches = <<>>
    /\ first_chapter_start = <<>>
    /\ last_chapter_start = <<>>
    /\ non_chapters = EmptyDict
    /\ titles = <<>>
    /\ chapters = <<>>
    /\ exported = <<>>
    /\ ret = NoReturn
    /\ pc = "sc_call"

SpecMalformed == InitMalformed /\ [][Next]_vars

\* split_chapters of pages/chapter_splitter.py on a transcript whose segments
\* may share a start and may overlap
InitOverlap ==
    /\ copy = "pages"
    /\ use_titles = FALSE
    /\ title_file = MissingFile
    /\ original_files = <<>>
    /\ lists = NoLists
    /\ pattern = {}
    /\ result \in OverlappingOver({ ChapterWord("Cap", StrOf(1)),
                                    ChapterWord("Cap", StrOf(2)),
                                    Word("prologue", "Cap") })
    /\ matches = <<>>
    /\ first_chapter_start = <<>>
    /\ last_chapter_start = <<>>
    /\ non_chapters = EmptyDict
    /\ titles = <<>>
    /\ chapters = <<>>
    /\ exported = <<>>
    /\ ret = NoReturn
    /\ pc = "sc_call"

\* the steps of split_chapters, without those of main
NextSplit ==
    \/ SC_Call
    \/ FS_Scan
    \/ FS_Sort
    \/ FS_Anchors
    \/ FS_Classify
    \/ FS_Return
    \/ SC_NoMatches
    \/ SC_LoadTitles
    \/ SC_Sort
    \/ SC_Build
    \/ SC_SortChapters
    \/ SC_NoChapters
    \/ SC_Export
    \/ SC_Return

SpecOverlap == InitOverlap /\ [][NextSplit]_vars

\* the directory of the audiobook
AudioDir == << "library", "/", "Book" >>

\* the name of the i-th chapter file of audio_dir
FileName(i) ==
    << "Chapter " >> \o StrOf(i) \o << " - ", TitleNames[i], ".mp3" >>

\* the durations that ffprobe prints, in steps of half a millisecond
Probes == { 500 * k : k \in 0..MaxProbe }

\* non-empty lists of chapter files in the order of main's sort
FileLists ==
    UNION { { [i \in 1..n |-> [name |-> FileName(i), micros |-> du[i]]] :
                du \in [1..n -> Probes] } :
              n \in 1..MaxFiles }

\* generate_lists(audio_dir, original_files) of either file
GL_Generate ==
    /\ pc = "gl_call"
    /\ lists' = generate_lists(copy, AudioDir, original_files)
    /\ pc' = "gl_done"
    /\ UNCHANGED << copy, use_titles, title_file, original_files, pattern,
                    result, matches, first_chapter_start, last_chapter_start,
                    non_chapters, titles, chapters, exported, ret >>

InitLists ==
    /\ copy \in {"pages", "main"}
    /\ use_titles = TRUE
    /\ title_file = MissingFile
    /\ original_files \in FileLists
    /\ lists = NoLists
    /\ pattern = {}
    /\ result = <<>>
    /\ matches = <<>>
    /\ first_chapter_start = <<>>
    /\ last_chapter_start = <<>>
    /\ non_chapters = EmptyDict
    /\ titles = <<>>
    /\ chapters = <<>>
    /\ exported = <<>>
    /\ ret = NoReturn
    /\ pc = "gl_call"

NextLists == GL_Generate

SpecLists == InitLists /\ [][NextLists]_vars

\* load_chapter_titles() called on its own
LT_Load ==
    /\ pc = "lt_call"
    /\ titles' = load_chapter_titles(title_file)
    /\ pc' = "lt_done"
    /\ UNCHANGED << copy, use_titles, title_file, original_files, lists, pattern, result, matches,
                    first_chapter_start, last_chapter_start, non_chapters,
                    chapters, exported, ret >>

InitTitles ==
    /\ copy = "none"
    /\ use_titles = TRUE
    /\ title_file \in TitleFiles
    /\ original_files = <<>>
    /\ lists = NoLists
    /\ pattern = {}
    /\ result = <<>>
    /\ matches = <<>>
    /\ first_chapter_start = <<>>
    /\ last_chapter_start = <<>>
    /\ non_chapters = EmptyDict
    /\ titles = <<>>
    /\ chapters = <<>>
    /\ exported = <<>>
    /\ ret = NoReturn
    /\ pc = "lt_call"

NextTitles == LT_Load

SpecTitles == InitTitles /\ [][NextTitles]_vars

\* split_chapters of either file on a recording in which a structural keyword
\* of the default pattern and "Chapter 1" are spoken
InitKeywords ==
    /\ copy \in {"pages", "main"}
    /\ use_titles = TRUE
    /\ title_file = MissingFile
    /\ original_files = <<>>
    /\ lists = NoLists
    /\ pattern = {}
    /\ \E w \in SpokenKeywords : result \in ChronologicalOver(FindWords(w))
    /\ matches = <<>>
    /\ first_chapter_start = <<>>
    /\ last_chapter_start = <<>>
    /\ non_chapters = EmptyDict
    /\ titles = <<>>
    /\ chapters = <<>>
    /\ exported = <<>>
    /\ ret = NoReturn
    /\ pc = "sc_call"

SpecKeywords == InitKeywords /\ [][Next]_vars

-----------------------------------------------------------------------------
(* Properties of find_sections *)

\* find_sections has filled non_chapters
Classified == pc \in {"fs_return", "done"}

\* the marker at index i of matches is a structural keyword of the given class
IsKeywordOf(i, class) ==
    /\ matches[i].match.num = <<>>
    /\ matches[i].match.stem \in class

\* the start of the marker at index i is listed under its capitalised keyword
InReport(i) ==
    LET key == Word(matches[i].match.stem, "Cap")
    IN  /\ key \in DOMAIN non_chapters
        /\ \E j \in 1..Len(non_chapters[key]) :
              non_chapters[key][j] = matches[i].start

FrontClass == { "introduction", "prologue", "foreword", "preface" }

BackClass ==
    { "conclusion", "epilogue", "afterword", "appendix", "addendum",
      "glossary", "bibliography", "index" }

EitherClass == { "dedication", "acknowledgement" }

\* C1 as stated: with firstChapterStart defined, a front-matter marker
\* (introduction, prologue, foreword, preface) is in the report if and only if
\* its start is >= firstChapterStart.
C1_Original ==
    (Classified /\ first_chapter_start # <<>>) =>
        \A i \in 1..Len(matches) :
            IsKeywordOf(i, FrontClass) =>
                (InReport(i) <=> matches[i].start >= first_chapter_start[1])

\* C1 amended: with firstChapterStart defined, a front-matter marker is in the
\* report if and only if its start is < firstChapterStart; one at or after
\* firstChapterStart produces no entry.
C1_FrontBeforeFirst ==
    (Classified /\ first_chapter_start # <<>>) =>
        \A i \in 1..Len(matches) :
            IsKeywordOf(i, FrontClass) =>
                (InReport(i) <=> matches[i].start < first_chapter_start[1])

\* a transcript with a front-matter keyword before the first chapter (reported)
\* and the same keyword after the first chapter (dropped)
C1_Witness ==
    /\ pc = "done"
    /\ first_chapter_start # <<>>
    /\ \E i, j \in 1..Len(matches) :
          /\ IsKeywordOf(i, FrontClass) /\ IsKeywordOf(j, FrontClass)
          /\ matches[i].start < first_chapter_start[1] /\ InReport(i)
          /\ matches[j].start > first_chapter_start[1] /\ ~ InReport(j)

\* C2 as stated: with lastChapterStart defined, a back-matter marker is in the
\* report if and only if its start is <= lastChapterStart.
C2_Original ==
    (Classified /\ last_chapter_start # <<>>) =>
        \A i \in 1..Len(matches) :
            IsKeywordOf(i, BackClass) =>
                (InReport(i) <=> matches[i].start <= last_chapter_start[1])

\* C2 amended: with lastChapterStart defined, a back-matter marker is in the
\* report if and only if its start is > lastChapterStart; one at or before
\* lastChapterStart produces no entry.
C2_BackAfterLast ==
    (Classified /\ last_chapter_start # <<>>) =>
        \A i \in 1..Len(matches) :
            IsKeywordOf(i, BackClass) =>
                (InReport(i) <=> matches[i].start > last_chapter_start[1])

\* a transcript with a back-matter keyword after the last chapter (reported)
\* and the same keyword before the last chapter (dropped)
C2_Witness ==
    /\ pc = "done"
    /\ last_chapter_start # <<>>
    /\ \E i, j \in 1..Len(matches) :
          /\ IsKeywordOf(i, BackClass) /\ IsKeywordOf(j, BackClass)
          /\ matches[i].start > last_chapter_start[1] /\ InReport(i)
          /\ matches[j].start < last_chapter_start[1] /\ ~ InReport(j)

\* C3 as stated: with both anchors defined, a dedication or acknowledgement
\* marker is in the report if and only if
\* firstChapterStart <= start <= lastChapterStart.
C3_Original ==
    (Classified /\ first_chapter_start # <<>> /\ last_chapter_start # <<>>) =>
        \A i \in 1..Len(matches) :
            IsKeywordOf(i, EitherClass) =>
                (InReport(i) <=>
                    /\ first_chapter_start[1] <= matches[i].start
                    /\ matches[i].start <= last_chapter_start[1])

\* C3 amended: with both anchors defined, a dedication or acknowledgement
\* marker is in the report if and only if its start is outside the closed
\* interval [firstChapterStart, lastChapterStart]; one inside produces no entry.
C3_EitherOutsideWindow ==
    (Classified /\ first_chapter_start # <<>> /\ last_chapter_start # <<>>) =>
        \A i \in 1..Len(matches) :
            IsKeywordOf(i, EitherClass) =>
                (InReport(i) <=>
                    \/ matches[i].start < first_chapter_start[1]
                    \/ matches[i].start > last_chapter_start[1])

\* chapters at two times and an either-end keyword strictly between them
\* (dropped)
C3_Witness ==
    /\ pc = "done"
    /\ first_chapter_start # <<>> /\ last_chapter_start # <<>>
    /\ \E i \in 1..Len(matches) :
          /\ IsKeywordOf(i, EitherClass)
          /\ first_chapter_start[1] < matches[i].start
          /\ matches[i].start < last_chapter_start[1]
          /\ ~ InReport(i)

\* number of entries of the report
RECURSIVE ReportSize(_, _)
ReportSize(d, keys) ==
    IF keys = {} THEN 0
    ELSE LET k == CHOOSE x \in keys : TRUE
         IN  Len(d[k]) + ReportSize(d, keys \ {k})

\* C4: when no marker carries a chapter number, both anchors are undefined and
\* every structural-keyword marker is in the report, one entry per marker.
C4_NoAnchorAllReported ==
    (Classified /\ \A i \in 1..Len(matches) : matches[i].match.num = <<>>) =>
        /\ first_chapter_start = <<>>
        /\ last_chapter_start = <<>>
        /\ \A i \in 1..Len(matches) : InReport(i)
        /\ ReportSize(non_chapters, DOMAIN non_chapters) = Len(matches)

\* a transcript without chapter numbers whose keyword is spoken at three times
C4_Witness ==
    /\ pc = "done"
    /\ first_chapter_start = <<>> /\ last_chapter_start = <<>>
    /\ Len(matches) = 3
    /\ \E i, j \in 1..Len(matches) : matches[i].start < matches[j].start
    /\ \A i \in 1..Len(matches) : InReport(i)

-----------------------------------------------------------------------------
(* Properties of split_chapters *)

\* split_chapters has returned (chapters, non_chapters)
Returned == ret.kind = "tuple"

\* the chapter number of an interval, read from its label
NumberOf(ch) == IntOf(DigitRun(ch.chapter, 2))

\* the chapter number spoken by the marker at index i
SpokenNumber(i) == IntOf(matches[i].match.num)

IsNumbered(i) == matches[i].match.num # <<>>

\* the marker at index i of the sorted matches starts an interval: it is the
\* first one with its chapter number
Kept(i) ==
    /\ IsNumbered(i)
    /\ \A j \in 1..(i - 1) : IsNumbered(j) => SpokenNumber(j) # SpokenNumber(i)

\* C5: the chapter numbers of the returned intervals are pairwise distinct.
C5_UniqueNumbers ==
    Returned =>
        \A i, j \in 1..Len(ret.chapters) :
            i # j => NumberOf(ret.chapters[i]) # NumberOf(ret.chapters[j])

\* a chapter number spoken three times, once as "01", and one interval returned
C5_Witness ==
    /\ Returned
    /\ Len(ret.chapters) = 1
    /\ Len(matches) = 3
    /\ \A i \in 1..Len(matches) : IsNumbered(i) /\ SpokenNumber(i) = 1
    /\ \E i, j \in 1..Len(matches) : matches[i].match.num # matches[j].match.num

\* C6: the returned interval list is in strictly ascending chapter-number order.
C6_AscendingNumbers ==
    Returned =>
        \A i, j \in 1..Len(ret.chapters) :
            i < j => NumberOf(ret.chapters[i]) < NumberOf(ret.chapters[j])

\* three chapters spoken in descending order of number
C6_Witness ==
    /\ Returned
    /\ Len(ret.chapters) = 3
    /\ \A i, j \in 1..Len(ret.chapters) :
          i < j => ret.chapters[i].start > ret.chapters[j].start

C8_BoundaryContinuity ==
    Returned =>
        /\ \A i \in 1..(Len(matches) - 1) :
              (Kept(i) /\ Kept(i + 1)) =>
                  \E a, b \in 1..Len(ret.chapters) :
                      /\ NumberOf(ret.chapters[a]) = SpokenNumber(i)
                      /\ NumberOf(ret.chapters[b]) = SpokenNumber(i + 1)
                      /\ ret.chapters[a].end = << ret.chapters[b].start >>
        /\ (matches # <<>> /\ Kept(Len(matches))) =>
              \E a \in 1..Len(ret.chapters) :
                  /\ NumberOf(ret.chapters[a]) = SpokenNumber(Len(matches))
                  /\ ret.chapters[a].end = << result[Len(result)].end >>

\* two chapters one after the other, the second one the last marker, and a
\* final segment that holds no marker and ends at another time
C8_Witness ==
    /\ Returned
    /\ Len(matches) = 2
    /\ Kept(1) /\ Kept(2)
    /\ matches[1].start < matches[2].start
    /\ result[Len(result)].text = <<>>
    /\ result[Len(result)].end # matches[2].end
    /\ Len(ret.chapters) = 2

\* the label of chapter n under the title list tl
TitledLabel(n, tl) ==
    IF 1 <= n /\ n <= Len(tl)
    THEN << "Chapter " >> \o StrOf(n) \o << " - " >> \o tl[n]
    ELSE << "Chapter " >> \o StrOf(n)

\* C9: the interval of a kept chapter number n is labelled
\* "Chapter n - T[n-1]" when 1 <= n <= len(T) and "Chapter n" otherwise.
C9_TitleSubstitution ==
    Returned =>
        \A i \in 1..Len(matches) :
            Kept(i) =>
                \E k \in 1..Len(ret.chapters) :
                    /\ ret.chapters[k].start = matches[i].start
                    /\ ret.chapters[k].chapter = TitledLabel(SpokenNumber(i), titles)

\* chapters 0, 1 and 2 with a title list of one title: chapter 1 gets the
\* title, chapters 0 and 2 the bare label
C9_Witness ==
    /\ Returned
    /\ Len(titles) = 1
    /\ Len(ret.chapters) = 3
    /\ ret.chapters[1].chapter = << "Chapter ", "0" >>
    /\ ret.chapters[2].chapter = << "Chapter ", "1", " - " >> \o titles[1]
    /\ ret.chapters[3].chapter = << "Chapter ", "2" >>

\* C10: with no segment or no keyword match, split_chapters returns an empty
\* chapter list together with an empty report, and the run does not end in an
\* error.
C10_EmptyInputNormalResult ==
    (pc \in {"sc_returned", "main_report", "ValueError"} /\ matches = <<>>) =>
        /\ ret.kind = "tuple"
        /\ ret.chapters = <<>>
        /\ ret.non_chapters = EmptyDict
        /\ pc # "ValueError"

\* C11: when split_chapters finds no numbered chapter, main does not end in an
\* error or exception but goes on with the conversion.
C11_NoChapterFallbackNonFatal ==
    (copy = "main" /\ \A i \in 1..Len(matches) : ~ IsNumbered(i)) =>
        pc \notin {"ValueError", "IndexError"}

\* the transcript holds a segment that ends before it starts
Malformed == \E i \in 1..Len(result) : result[i].end < result[i].start

\* C12: a run whose transcript holds a segment with end < start ends in an
\* error reported to the caller; it does not return chapter intervals and an
\* anomaly report.
C12_MalformedFailsFast == Malformed => ~ Returned

\* the chapter numbers spoken in the transcript
SpokenNumbers ==
    UNION { { IntOf(result[i].text[k].num) :
                k \in { k \in 1..Len(result[i].text) :
                          result[i].text[k].num # <<>> } } :
            i \in 1..Len(result) }

\* C13 as stated: every returned interval has number >= 1.
C13_Original ==
    Returned => \A i \in 1..Len(ret.chapters) : NumberOf(ret.chapters[i]) >= 1

\* C13: every returned interval has a number that is spoken in the transcript
\* as "chapter <digits>"; the number is 0 where "chapter 0" is spoken.
C13_NumbersAsSpoken ==
    Returned =>
        \A i \in 1..Len(ret.chapters) :
            NumberOf(ret.chapters[i]) \in SpokenNumbers

\* "chapter 0" is spoken and an interval numbered 0 is returned
C13_Witness ==
    /\ Returned
    /\ 0 \in SpokenNumbers
    /\ \E i \in 1..Len(ret.chapters) : NumberOf(ret.chapters[i]) = 0

\* the marker scan is over
Scanned == pc \notin {"sc_call", "fs_scan"}

\* C14: in a run of split_chapters every spoken "chapter <digits>" and every
\* spoken keyword of the 14 of the default pattern yields a marker.
C14_AllKeywordsYieldMarkers ==
    Scanned =>
        \A i \in 1..Len(result) : \A k \in 1..Len(result[i].text) :
            RegexMatches(DefaultPattern, result[i].text[k]) =>
                \E j \in 1..Len(matches) :
                    /\ matches[j].start = result[i].start
                    /\ matches[j].match = result[i].text[k]

\* the number of words of a segment that the pattern matches
MatchCount(seg) ==
    Cardinality({ k \in 1..Len(seg.text) : RegexMatches(pattern, seg.text[k]) })

\* the markers of the segment that starts at time s
MarkersAt(s) == { j \in 1..Len(matches) : matches[j].start = s }

\* C16: find_sections emits exactly one marker per keyword match of each
\* segment's text; every marker carries the start, end and text of its segment;
\* a marker has a chapter number if and only if it matched "chapter <digits>".
C16_MarkerScanning ==
    pc # "fs_scan" =>
        /\ \A i \in 1..Len(result) :
              Cardinality(MarkersAt(result[i].start)) = MatchCount(result[i])
        /\ \A j \in 1..Len(matches) :
              /\ \E i \in 1..Len(result) :
                    /\ matches[j].start = result[i].start
                    /\ matches[j].end = result[i].end
                    /\ matches[j].text = result[i].text
                    /\ \E k \in 1..Len(result[i].text) :
                          matches[j].match = result[i].text[k]
              /\ Group2(matches[j].match) # <<>>
                    <=> matches[j].match.stem = "chapter"

\* a segment with two matches gives two markers, one of them numbered, and a
\* segment with the bare word "chapter" gives none
C16_Witness ==
    /\ pc = "fs_sort"
    /\ \E i \in 1..Len(result) :
          /\ MatchCount(result[i]) = 2
          /\ \E j, k \in MarkersAt(result[i].start) :
                Group2(matches[j].match) # <<>> /\ Group2(matches[k].match) = <<>>
    /\ \E i \in 1..Len(result) :
          result[i].text # <<>> /\ MarkersAt(result[i].start) = {}

\* C17: every reported occurrence is filed under its keyword written with a
\* capital first letter and the rest in lower case, whatever the spoken case,
\* and the timestamps of each keyword are in non-decreasing order.
C17_ReportShape ==
    Classified =>
        \A key \in DOMAIN non_chapters :
            /\ key.shape = "Cap"
            /\ key.num = <<>>
            /\ \A n \in 1..Len(non_chapters[key]) :
                  \E i \in 1..Len(matches) :
                      /\ matches[i].match.stem = key.stem
                      /\ matches[i].start = non_chapters[key][n]
            /\ \A m, n \in 1..Len(non_chapters[key]) :
                  m < n => non_chapters[key][m] <= non_chapters[key][n]

\* a keyword spoken in upper or lower case, transcribed out of time order, and
\* reported at two different times
C17_Witness ==
    /\ pc = "done"
    /\ Len(result) >= 2
    /\ result[1].start > result[2].start
    /\ \E key \in DOMAIN non_chapters :
          /\ Len(non_chapters[key]) = 2
          /\ non_chapters[key][1] < non_chapters[key][2]
          /\ \E i \in 1..Len(matches) :
                matches[i].match.stem = key.stem /\ matches[i].match.shape # "Cap"

Least(S) == CHOOSE x \in S : \A y \in S : x <= y

Greatest(S) == CHOOSE x \in S : \A y \in S : y <= x

\* the start times of the segments in which chapter number n is spoken
StartsOf(n) ==
    { result[i].start :
        i \in { i \in 1..Len(result) :
                  \E k \in 1..Len(result[i].text) :
                      /\ result[i].text[k].num # <<>>
                      /\ IntOf(result[i].text[k].num) = n } }

\* C19: for every chapter number spoken in the transcript exactly one interval
\* with that number is returned, its start is the earliest time the number is
\* spoken, and markers without a chapter number give no interval.
C19_FirstOccurrenceWins ==
    Returned =>
        /\ Len(ret.chapters) = Cardinality(SpokenNumbers)
        /\ \A n \in SpokenNumbers :
              \E i \in 1..Len(ret.chapters) :
                  /\ NumberOf(ret.chapters[i]) = n
                  /\ ret.chapters[i].start = Least(StartsOf(n))

\* a chapter number spoken at two times with a keyword in between: one interval
C19_Witness ==
    /\ Returned
    /\ Len(ret.chapters) = 1
    /\ Len(matches) = 3
    /\ ~ IsNumbered(2)
    /\ Cardinality(StartsOf(NumberOf(ret.chapters[1]))) = 2
    /\ ret.chapters[1].start = matches[1].start

\* the starts of the returned intervals that begin after time t
LaterStarts(t) ==
    { ret.chapters[j].start :
        j \in { j \in 1..Len(ret.chapters) : ret.chapters[j].start > t } }

\* C20: each returned interval ends at the start of the chronologically next
\* returned interval, or at the end of the last segment when no later interval
\* exists.
C20_EndIsNextChapter ==
    Returned =>
        \A i \in 1..Len(ret.chapters) :
            ret.chapters[i].end =
                IF LaterStarts(ret.chapters[i].start) # {}
                THEN << Least(LaterStarts(ret.chapters[i].start)) >>
                ELSE << result[Len(result)].end >>

-----------------------------------------------------------------------------
(* Properties of load_chapter_titles *)

\* the positions of a line that hold no white space
Inked(line) == { k \in 1..Len(line) : ~ IsSpace(line[k]) }

\* the line numbers of the file whose line is not blank and whose first piece
\* after the leading white space is not "#"
TitleLines ==
    { i \in 1..Len(title_file.lines) :
        /\ Inked(title_file.lines[i]) # {}
        /\ title_file.lines[i][Least(Inked(title_file.lines[i]))] # "#" }

\* the k-th title line of the file
KthTitleLine(k) ==
    CHOOSE i \in TitleLines : Cardinality({ j \in TitleLines : j <= i }) = k

\* C18: load_chapter_titles returns, in file order, exactly the lines that are
\* not blank and do not start with "#" once stripped of surrounding white
\* space, title k being the k-th such line; a missing file gives the empty list.
C18_TitleListLoading ==
    pc = "lt_done" =>
        IF title_file.exists
        THEN /\ Len(titles) = Cardinality(TitleLines)
             /\ \A k \in 1..Len(titles) :
                   LET line == title_file.lines[KthTitleLine(k)]
                   IN  titles[k] = SubSeq(line, Least(Inked(line)),
                                          Greatest(Inked(line)))
        ELSE titles = <<>>

\* a file of three lines, a comment between an indented title and a title that
\* holds a "#" after its first word: two titles are loaded
C18_Witness ==
    /\ pc = "lt_done"
    /\ Len(title_file.lines) = 3
    /\ Head(title_file.lines[1]) = " "
    /\ Len(titles) = 2
    /\ titles[1] = << TitleNames[1] >>
    /\ titles[2] = << TitleNames[3], " ", "#" >>

-----------------------------------------------------------------------------
(* Properties of the anchors and of the sort *)

\* the start times of the segments in which a chapter number is spoken
NumberedStarts == UNION { StartsOf(n) : n \in SpokenNumbers }

\* first_chapter_start and last_chapter_start have been computed
Anchored == pc \in {"fs_classify", "fs_return", "done"}

\* C21: first_chapter_start is the minimum and last_chapter_start the maximum
\* start over all markers that carry a chapter number, repeated numbers
\* included; both are undefined exactly when no such marker exists, and when
\* defined first_chapter_start <= last_chapter_start.
C21_AnchorComputation ==
    Anchored =>
        IF NumberedStarts = {}
        THEN first_chapter_start = <<>> /\ last_chapter_start = <<>>
        ELSE /\ first_chapter_start = << Least(NumberedStarts) >>
             /\ last_chapter_start = << Greatest(NumberedStarts) >>
             /\ first_chapter_start[1] <= last_chapter_start[1]

\* the same chapter number spoken at two times, transcribed out of time order
C21_Witness ==
    /\ pc = "done"
    /\ Len(result) >= 2
    /\ result[1].start > result[2].start
    /\ Cardinality(NumberedStarts) = 2
    /\ first_chapter_start # <<>>
    /\ first_chapter_start[1] < last_chapter_start[1]

\* the markers in the order in which the scan appended them
ScannedMarkers == ScanSegments(pattern, result, 1)

\* the one-to-one maps of 1..n onto itself
OneToOne(n) ==
    { f \in [1..n -> 1..n] : \A i, j \in 1..n : i # j => f[i] # f[j] }

\* the sort step is over
Sorted == pc \in {"fs_anchors", "fs_classify", "fs_return", "done"}

\* C22: after the sort the marker list is non-decreasing by start and is a
\* permutation of the scanned markers in which markers of equal start keep
\* their scan order; so of two markers with the same chapter number and the
\* same start the one scanned first comes first, and is the one kept.
C22_StableSort ==
    Sorted =>
        /\ Len(matches) = Len(ScannedMarkers)
        /\ \E f \in OneToOne(Len(matches)) :
              /\ \A k \in 1..Len(matches) : matches[k] = ScannedMarkers[f[k]]
              /\ \A k, l \in 1..Len(matches) :
                    k < l =>
                        /\ matches[k].start <= matches[l].start
                        /\ matches[k].start = matches[l].start => f[k] < f[l]
                        /\ (/\ matches[k].start = matches[l].start
                            /\ IsNumbered(k) /\ IsNumbered(l)
                            /\ SpokenNumber(k) = SpokenNumber(l)) => ~ Kept(l)

\* "Chapter 1" and "Chapter 01" scanned in this order at the same start, behind
\* a marker of a later start: the sort moves both forward in their scan order
C22_Witness ==
    /\ pc = "fs_anchors"
    /\ Len(matches) = 3
    /\ ScannedMarkers[1].start > ScannedMarkers[2].start
    /\ ScannedMarkers[2].start = ScannedMarkers[3].start
    /\ ScannedMarkers[2].match.num = << "1" >>
    /\ ScannedMarkers[3].match.num = << "0", "1" >>
    /\ matches[1] = ScannedMarkers[2]
    /\ matches[2] = ScannedMarkers[3]
    /\ Kept(1) /\ ~ Kept(2)

-----------------------------------------------------------------------------
(* Properties of the export and of the interval times *)

\* C23: the export is attempted once for every interval, in ascending order of
\* chapter number and only when all intervals are built and sorted; a failed
\* export does not stop the following attempts, and the returned list holds
\* every interval whether or not its export succeeded.
C23_ExportSequence ==
    /\ Len(exported) <= Len(chapters)
    /\ \A k \in 1..Len(exported) :
          /\ exported[k].file = chapters[k].file
          /\ exported[k].ss = chapters[k].start
    /\ exported # <<>> =>
          /\ pc \notin {"sc_call", "fs_scan", "fs_sort", "fs_anchors",
                        "fs_classify", "fs_return", "sc_check", "sc_sort",
                        "sc_build", "sc_sort_chapters"}
          /\ \A i \in 1..(Len(chapters) - 1) :
                NumberOf(chapters[i]) < NumberOf(chapters[i + 1])
    /\ Returned =>
          /\ ret.chapters = chapters
          /\ Len(exported) = Len(ret.chapters)

\* three chapters spoken out of numeric order; the first export fails, the
\* second succeeds, the third is attempted and all three are returned
C23_Witness ==
    /\ Returned
    /\ Len(ret.chapters) = 3
    /\ ret.chapters[1].start > ret.chapters[2].start
    /\ Len(exported) = 3
    /\ ~ exported[1].ok
    /\ exported[2].ok

\* C24: every interval that split_chapters returns has a defined end, and every
\* export is given a duration: with a marker there is a segment, so the end of
\* the last marker is the end of the last segment.
C24_EndTimeSet ==
    /\ \A k \in 1..Len(exported) : exported[k].t # <<>>
    /\ Returned => \A i \in 1..Len(ret.chapters) : ret.chapters[i].end # <<>>

\* the last marker starts an interval and silence follows it: the interval ends
\* where the last segment ends
C24_Witness ==
    /\ Returned
    /\ matches # <<>>
    /\ Kept(Len(matches))
    /\ result[Len(result)].text = <<>>
    /\ \E i \in 1..Len(ret.chapters) :
          /\ ret.chapters[i].start = matches[Len(matches)].start
          /\ ret.chapters[i].end = << result[Len(result)].end >>
    /\ Len(exported) = Len(ret.chapters)

\* the segments are listed in non-decreasing order of start and each ends after
\* it starts
WellOrdered ==
    /\ \A i \in 1..Len(result) : result[i].end > result[i].start
    /\ \A i \in 1..(Len(result) - 1) : result[i].start <= result[i + 1].start

\* the returned interval of the kept marker at index i of the sorted matches
IntervalOf(i) ==
    ret.chapters[CHOOSE k \in 1..Len(ret.chapters) :
                     NumberOf(ret.chapters[k]) = SpokenNumber(i)]

\* C25: on a transcript listed in non-decreasing start order with end > start,
\* two kept intervals A, B with A detected before B satisfy
\* A.start <= A.end <= B.start, every interval has start <= end, and no export
\* is given a negative duration.
C25_WellFormedDisjoint ==
    (Returned /\ WellOrdered) =>
        /\ \A i, j \in 1..Len(matches) :
              (i < j /\ Kept(i) /\ Kept(j)) =>
                  /\ IntervalOf(i).start <= IntervalOf(i).end[1]
                  /\ IntervalOf(i).end[1] <= IntervalOf(j).start
        /\ \A k \in 1..Len(ret.chapters) :
              ret.chapters[k].start <= ret.chapters[k].end[1]
        /\ \A k \in 1..Len(exported) : exported[k].t[1] >= 0

\* two chapters whose segments share a start, the first segment reaching beyond
\* it: the first interval is empty and ends where the second starts
C25_Witness ==
    /\ Returned
    /\ WellOrdered
    /\ Len(matches) >= 2
    /\ Kept(1) /\ Kept(2)
    /\ matches[1].start = matches[2].start
    /\ matches[1].end > matches[2].start + 1
    /\ IntervalOf(1).end = << IntervalOf(1).start >>
    /\ IntervalOf(2).start = IntervalOf(1).start
    /\ IntervalOf(2).end[1] > IntervalOf(2).start

\* the start times of the returned intervals
IntervalStarts == { ret.chapters[k].start : k \in 1..Len(ret.chapters) }

\* C26: whenever an interval is returned, first_chapter_start is the smallest
\* start among the returned intervals and last_chapter_start is >= the start of
\* every returned interval.
C26_AnchorsVersusIntervals ==
    (Returned /\ ret.chapters # <<>>) =>
        /\ first_chapter_start = << Least(IntervalStarts) >>
        /\ last_chapter_start # <<>>
        /\ \A s \in IntervalStarts : last_chapter_start[1] >= s

\* two chapters and a repeated mention of the first one after them: the last
\* anchor lies behind the start of every returned interval
C26_Witness ==
    /\ Returned
    /\ Len(ret.chapters) = 2
    /\ Len(matches) = 3
    /\ ~ Kept(3)
    /\ first_chapter_start = << matches[1].start >>
    /\ \A s \in IntervalStarts : last_chapter_start[1] > s

-----------------------------------------------------------------------------
(* The two copies of split_chapters *)

\* what split_chapters of pages/chapter_splitter.py returns on the transcript
\* and the title file of the run
PagesResult ==
    LET ms    == SortByStart(ScanSegments(SplitPattern, result, 1))
        first == FirstChapterStart(ms)
        last  == LastChapterStart(ms)
        tl    == IF use_titles THEN load_chapter_titles(title_file) ELSE <<>>
    IN  [kind         |-> "tuple",
         chapters     |-> SortChapters(BuildChapters(SortByStart(ms), 1, result,
                                                     tl, use_titles, {}, <<>>)),
         non_chapters |-> Classify(ms, 1, first, last, EmptyDict)]

\* C27: with use_titles enabled, split_chapters of either copy returns what
\* the copy of pages/chapter_splitter.py returns on the same transcript and
\* title file, also when no marker or no numbered chapter is found.
C27_CopiesAgree ==
    (ret # NoReturn /\ use_titles) => ret = PagesResult

-----------------------------------------------------------------------------
(* Properties of generate_lists *)

\* the sum of f over the indices 1..n
RECURSIVE SumTo(_, _)
SumTo(f, n) == IF n = 0 THEN 0 ELSE f[n] + SumTo(f, n - 1)

\* the durations of the files in milliseconds
Millis == [i \in 1..Len(original_files) |-> get_duration(original_files[i])]

\* C28: for a non-empty list of files generate_lists writes chapter entries
\* whose first START is 0, whose every later START is the END of the entry
\* before, whose START <= END and whose last END is total_duration, the sum of
\* the durations; the copy of pages/audio_processor.py writes for one file the
\* single entry from 0 to total_duration.
C28_ChapterContiguity ==
    pc = "gl_done" =>
        LET es == lists.chapters
        IN  /\ es # <<>>
            /\ es[1].START = 0
            /\ \A k \in 2..Len(es) : es[k].START = es[k - 1].END
            /\ \A k \in 1..Len(es) : es[k].START <= es[k].END
            /\ es[Len(es)].END = lists.total_duration
            /\ lists.total_duration = SumTo(Millis, Len(original_files))
            /\ (copy = "pages" /\ Len(original_files) = 1) =>
                   /\ Len(es) = 1
                   /\ es[1].START = 0
                   /\ es[1].END = lists.total_duration

\* three files, the second shorter than a millisecond: three entries that
\* follow each other, the second empty
C28_Witness ==
    /\ pc = "gl_done"
    /\ Len(original_files) = 3
    /\ Len(lists.chapters) = 3
    /\ lists.chapters[1].END > 0
    /\ lists.chapters[2].START = lists.chapters[2].END
    /\ lists.chapters[3].END > lists.chapters[3].START
    /\ original_files[2].micros > 0
    /\ lists.chapters[1].title[Len(lists.chapters[1].title) - 2] = ": "

====
